---- MODULE Spec2Model ----
(***************************************************************************)
(* Tenant database routing of the asset-management backend:                *)
(* mainproject/api/utils.py (directory fetch, decrypt, probe, alias        *)
(* registry) and the tenant helpers of mainproject/api/views.py.           *)
(*                                                                         *)
(* Worker threads run concurrently.  Every action is one step of one       *)
(* worker: one access to the process-wide registry maps                    *)
(* (settings.DATABASES, connections.databases) or one outbound call.       *)
(***************************************************************************)
EXTENDS Naturals, Sequences, FiniteSets, TLC

VARIABLES
    DATABASES,      \* settings.DATABASES, tenant aliases only
    connDatabases,  \* connections.databases, tenant aliases only
    dirVersion,     \* directory service: credential version held per tenant
    pc,             \* per worker: position in the running call
    op,             \* per worker: the outermost call being executed
    arg,            \* per worker: (client_id, client_username) of the call
    data,           \* per worker: local `data` (body of the directory response)
    real_pw,        \* per worker: local `real_pw`
    outcome,        \* per worker: value returned / exception raised by the call
    hist,           \* per worker: what the running call / request has done so far
    frame,          \* per worker: who called ensure_alias_for_client
    request,        \* per worker: the HTTP request being handled (view, token)
    tenantCtx,      \* per worker thread: the router's current tenant (thread-local)
    stmt,           \* per worker: database the request's last statement went to
    resp,           \* per worker: the response of the request
    probe,          \* per worker: a running test_db_connection call
    amc,            \* tenant database: AssetWarrantyAMC rows per asset, and
                    \* the last answer of AssetAMCCreateAPIView.post
    bundleTx,       \* the running AssetBundleCreateAPIView.post transaction
    bundleDb,       \* tenant database: committed rows of bundles
    codeRows,       \* tenant database: rows of a taxonomy table (AssetType)
    saving,         \* per worker: a running save() of a taxonomy row
    softRows,       \* tenant database: rows of a BaseModel table, and the
                    \* last operation on it
    clock           \* timezone.now()

regVars  == <<DATABASES, connDatabases, dirVersion>>
callVars == <<pc, op, arg, data, real_pw, outcome, hist>>
reqVars  == <<frame, request, tenantCtx, stmt, resp>>
auxVars  == <<probe, amc, bundleTx, bundleDb, codeRows, saving,
              softRows, clock>>
vars     == <<DATABASES, connDatabases, dirVersion,
              pc, op, arg, data, real_pw, outcome, hist,
              frame, request, tenantCtx, stmt, resp,
              probe, amc, bundleTx, bundleDb, codeRows, saving,
              softRows, clock>>

----------------------------------------------------------------------------
(* Bounds and small input sets *)

\* Credentials of a tenant rotate centrally from version 1 up to MaxVersion.
MaxVersion == 2

Workers == {"w1", "w2"}
Tenants == {1, 2}

\* Python None / a falsy argument: client_id 0 and client_username "".
NoId   == 0
NoName == ""

UserNameOf(t) == IF t = 1 THEN "u1" ELSE "u2"
AliasOf(t)    == IF t = 1 THEN "client_1" ELSE "client_2"
Aliases       == {AliasOf(t) : t \in Tenants}

\* Every (client_id, client_username) pair a caller may pass.
AllArgs == [client_id : Tenants \cup {NoId},
            client_username : {UserNameOf(t) : t \in Tenants} \cup {NoName}]

\* The pairs concurrent callers pass: one tenant, named by id or by username.
ArgSet ==
    {[client_id |-> 1,    client_username |-> NoName],
     [client_id |-> NoId, client_username |-> "u1"]}

\* Tenants whose credentials the accounts service rotates while workers race.
RotatingTenants == {1}

NoCfg  == [absent |-> TRUE]
NoData == [nodata |-> TRUE]
NoPw   == <<>>

----------------------------------------------------------------------------
(* Directory service (external): the records it may answer with *)

RequiredKeys == {"alias", "db_name", "db_user", "db_host", "db_port"}

EnvKey == "k1"      \* os.environ['DB_ENCRYPTION_KEY']

Plain(v)        == <<"pw", v>>
Encrypt(k, p)   == <<"fernet", k, p>>

BaseRecord(t) ==
    [alias   |-> AliasOf(t),
     db_name |-> IF t = 1 THEN "db_1" ELSE "db_2",
     db_user |-> IF t = 1 THEN "user_1" ELSE "user_2",
     db_host |-> IF t = 1 THEN "host_1" ELSE "host_2",
     db_port |-> "5432"]

\* f extended with key k holding x
With(f, k, x) == [j \in DOMAIN f \cup {k} |-> IF j = k THEN x ELSE f[j]]
\* f without key k
Without(f, k) == [j \in DOMAIN f \ {k} |-> f[j]]

EncRecord(t, v)   == With(BaseRecord(t), "db_password_encrypted", Encrypt(EnvKey, Plain(v)))
PlainRecord(t, v) == With(BaseRecord(t), "db_password", Plain(v))

\* An empty db_password_encrypted value.
NoCipher == <<>>
\* A key other than the one in the environment.
OtherKey == "k2"

\* Shapes of the body of a 200 answer: encrypted / plaintext / both
\* passwords, a ciphertext Fernet rejects (not a token, made with another
\* key, empty beside a plaintext password), no password at all, and a
\* record with a required key absent ("drop") or empty ("blank").
WellFormedShapes == {<<"enc">>, <<"plain">>, <<"both">>, <<"garbage">>}
AllShapes ==
    WellFormedShapes \cup {<<"nopw">>, <<"wrongkey">>, <<"encblank">>}
    \cup {<<"drop", k>> : k \in RequiredKeys}
    \cup {<<"blank", k>> : k \in RequiredKeys}

\* The body of shape sh for tenant t at credential version v.
Body(t, v, sh) ==
    CASE sh[1] = "enc"     -> EncRecord(t, v)
      [] sh[1] = "plain"   -> PlainRecord(t, v)
      [] sh[1] = "both"    -> With(EncRecord(t, v), "db_password", <<"stale">>)
      [] sh[1] = "garbage" -> With(BaseRecord(t), "db_password_encrypted", <<"garbage">>)
      [] sh[1] = "wrongkey" ->
             With(BaseRecord(t), "db_password_encrypted", Encrypt(OtherKey, Plain(v)))
      [] sh[1] = "encblank" -> With(PlainRecord(t, v), "db_password_encrypted", NoCipher)
      [] sh[1] = "nopw"    -> BaseRecord(t)
      [] sh[1] = "drop"    -> Without(EncRecord(t, v), sh[2])
      [] sh[1] = "blank"   -> With(EncRecord(t, v), sh[2], "")

Statuses == {200, 404, 500}

\* resp.text of a non-200 answer.
ErrorText(st) == IF st = 404 THEN "Not found" ELSE "Server error"

----------------------------------------------------------------------------
(* Per-call bookkeeping *)

NoReq == [route |-> "none", param |-> "none"]

\* Status code and body text of a directory answer, as an exception
\* carries them; none for the other exceptions.
NoDetail == [status |-> 0, text |-> ""]

HistInit == [dirCalls |-> 0, req |-> NoReq, dirAnswer |-> NoDetail,
             decrypts |-> 0, probes |-> 0,
             probed |-> NoCfg, probeFailed |-> FALSE, wrote |-> FALSE,
             evicted |-> FALSE, ctxSet |-> FALSE, logged |-> {},
             fetched |-> {}, keyReads |-> 0]

NoOutcome == [kind |-> "none", stage |-> "none", alias |-> "none",
              detail |-> NoDetail]

\* request.user.tenant of a token: the alias claim and the identifiers.
NoToken == [alias |-> "", client_username |-> NoName, client_id |-> NoId]

Tokens ==
    {[alias |-> "client_1", client_username |-> "u1",   client_id |-> 1],
     [alias |-> "client_1", client_username |-> NoName, client_id |-> NoId],
     [alias |-> "client_2", client_username |-> "u1",   client_id |-> NoId],
     NoToken}

\* Views: one built on RouterTenantContextMixin (with _TenantDBMixin),
\* AssetBundleCreateAPIView (built on it too), AssetListAPIView,
\* GlobalLocationListCreateAPIView.
Views == {"mixin", "bundle", "assetlist", "global"}
MixinViews == {"mixin", "bundle"}

NoRequest == [view |-> "none", token |-> NoToken]
NoTenant  == "none"     \* set_current_tenant(None)
NoStmt    == "none"
NoResp    == [status |-> 0, stage |-> "none", finalized |-> FALSE]

\* A test_db_connection call that has not started: no attempt made, no
\* connection object, nothing returned (utils.py:39-40, conn = None).
NoProbe == [pc |-> "idle", target |-> NoId, attempts |-> 0,
            conn |-> "none", result |-> "none", cause |-> ""]

\* Assets of the tenant database, and an id no asset has.
Assets == {1, 2}
NoAsset == 3

\* No answer of AssetAMCCreateAPIView.post yet.
NoAmcResp == [asset |-> 0, status |-> 0, detail |-> ""]

\* No AssetBundleCreateAPIView.post running: no transaction, no payload.
NoBundle == [pc |-> "idle", rid |-> 0, supplied |-> {}, location |-> "none",
             part |-> 0, written |-> {}, discarded |-> {},
             status |-> 0, stage |-> "none", answered201 |-> {}]

\* No save() of a taxonomy row running on a thread.
NoSave == [pc |-> "idle", site |-> 0, name |-> <<>>, base |-> <<>>,
           code |-> <<>>, i |-> 0, tried |-> {}]

\* Primary keys of a BaseModel table; no row, no time, no user.
RowIds == {1, 2}
Absent == [absent |-> TRUE]
NoTime == 0
NoUser == 0
NoOp == [op |-> "none", pk |-> 0]

InitAux ==
    /\ probe = [w \in Workers |-> NoProbe]
    /\ amc = [rows |-> [a \in Assets |-> 0], resp |-> NoAmcResp]
    /\ bundleTx = NoBundle
    /\ bundleDb = {}
    /\ codeRows = {}
    /\ saving = [w \in Workers |-> NoSave]
    /\ softRows = [rows |-> [k \in RowIds |-> Absent], last |-> NoOp]
    /\ clock = 0

Init ==
    /\ DATABASES = [a \in Aliases |-> NoCfg]
    /\ connDatabases = [a \in Aliases |-> NoCfg]
    /\ dirVersion = [t \in Tenants |-> 1]
    /\ pc = [w \in Workers |-> "idle"]
    /\ op = [w \in Workers |-> "none"]
    /\ arg = [w \in Workers |-> [client_id |-> NoId, client_username |-> NoName]]
    /\ data = [w \in Workers |-> NoData]
    /\ real_pw = [w \in Workers |-> NoPw]
    /\ outcome = [w \in Workers |-> NoOutcome]
    /\ hist = [w \in Workers |-> HistInit]
    /\ frame = [w \in Workers |-> "caller"]
    /\ request = [w \in Workers |-> NoRequest]
    /\ tenantCtx = [w \in Workers |-> NoTenant]
    /\ stmt = [w \in Workers |-> NoStmt]
    /\ resp = [w \in Workers |-> NoResp]
    /\ InitAux

----------------------------------------------------------------------------
(* fetch_client_db_info: pure parts *)

\* Variant: client_username is looked at before client_id.
FetchRequest_username_first(a) ==
    IF a.client_username # NoName
        THEN [route |-> "by-username", param |-> a.client_username]
    ELSE IF a.client_id # NoId
        THEN [route |-> "by-client-id", param |-> ToString(a.client_id)]
    ELSE NoReq

\* utils.py 84-91: which directory endpoint is asked; client_id wins when set.
FetchRequest(a) ==
    IF a.client_id # NoId
        THEN [route |-> "by-client-id", param |-> ToString(a.client_id)]
    ELSE IF a.client_username # NoName
        THEN [route |-> "by-username", param |-> a.client_username]
    ELSE NoReq

\* The tenant the directory looks up for a request.
TenantOfReq(req) ==
    IF req.route = "by-client-id"
        THEN CHOOSE t \in Tenants : ToString(t) = req.param
        ELSE CHOOSE t \in Tenants : UserNameOf(t) = req.param

\* Variant: db_port is left out of the required keys.
MissingKey_without_port(d) ==
    \E k \in RequiredKeys \ {"db_port"} : k \notin DOMAIN d \/ d[k] = ""

\* utils.py 99-101: `k not in data or not data[k]` for some required key.
MissingKey(d) == \E k \in RequiredKeys : k \notin DOMAIN d \/ d[k] = ""

\* utils.py 103-104: neither password variant present.
MissingPassword(d) ==
    "db_password_encrypted" \notin DOMAIN d /\ "db_password" \notin DOMAIN d

\* utils.py 13: Fernet(key).decrypt succeeds on a token made with the same key.
DecryptOk(enc) == Len(enc) = 3 /\ enc[1] = "fernet" /\ enc[2] = EnvKey
DecryptedPlain(enc) == enc[3]

\* utils.py 20-33: the configuration add_db_alias builds.
Cfg(d, pw) ==
    [NAME |-> d.db_name, USER |-> d.db_user, PASSWORD |-> pw,
     HOST |-> d.db_host, PORT |-> d.db_port]

\* What the log calls of utils.py write, value by value.
\* utils.py 11: the length of the ciphertext.
LogDecrypt(enc) == {<<"len", Len(enc)>>}
\* utils.py 18-19, 40: alias, user, host, port and name of the database.
LogTarget(d) == {<<"alias", d.alias>>, <<"db_user", d.db_user>>,
                 <<"db_host", d.db_host>>, <<"db_port", d.db_port>>,
                 <<"db_name", d.db_name>>}

----------------------------------------------------------------------------
(* Leaving a call: the frame's locals are gone.  `data` keeps the body that *)
(* fetch_client_db_info rejected when that is where the call raised.        *)

RaisedWith(w, kind, stage, d, detail) ==
    /\ pc' = [pc EXCEPT ![w] =
                 CASE frame[w] = "caller" -> "done"
                   [] frame[w] = "handler" /\ request[w].view = "bundle" -> "q_fail"
                   [] OTHER -> "q_exc"]
    /\ outcome' = [outcome EXCEPT ![w] =
                      [kind |-> kind, stage |-> stage, alias |-> "none",
                       detail |-> detail]]
    /\ data' = [data EXCEPT ![w] = d]
    /\ real_pw' = [real_pw EXCEPT ![w] = NoPw]

Raised(w, kind, stage, d) == RaisedWith(w, kind, stage, d, NoDetail)

Returned(w, alias) ==
    /\ pc' = [pc EXCEPT ![w] =
                 CASE frame[w] = "caller"  -> "done"
                   [] frame[w] = "initial" -> "q_set_ctx"
                   [] frame[w] = "handler" -> "q_stmt"
                   [] frame[w] = "get"     -> "q_get_stmt"]
    /\ outcome' = [outcome EXCEPT ![w] =
                      [kind |-> "ok", stage |-> "none", alias |-> alias,
                       detail |-> NoDetail]]
    /\ data' = [data EXCEPT ![w] = NoData]
    /\ real_pw' = [real_pw EXCEPT ![w] = NoPw]

\* The call goes on to step p with locals d and pw.
Goto(w, p, d, pw) ==
    /\ pc' = [pc EXCEPT ![w] = p]
    /\ data' = [data EXCEPT ![w] = d]
    /\ real_pw' = [real_pw EXCEPT ![w] = pw]
    /\ UNCHANGED outcome

----------------------------------------------------------------------------
(* The registry: settings.DATABASES and connections.databases.  Django's *)
(* connection handler is built without a dictionary of its own, and its  *)
(* `databases` is the very dictionary behind settings.DATABASES: an       *)
(* assignment or a pop through either name is seen through both.         *)

\* Variant: the two names stand for two dictionaries; an assignment to
\* settings.DATABASES leaves connections.databases as it was.
SettingsPut_own_dictionary(a, cfg) ==
    /\ DATABASES' = [DATABASES EXCEPT ![a] = cfg]
    /\ UNCHANGED connDatabases

\* settings.DATABASES[alias] = cfg
SettingsPut(a, cfg) ==
    /\ DATABASES' = [DATABASES EXCEPT ![a] = cfg]
    /\ connDatabases' = [connDatabases EXCEPT ![a] = cfg]

\* connections.databases[alias] = cfg
ConnectionsPut(a, cfg) ==
    /\ connDatabases' = [connDatabases EXCEPT ![a] = cfg]
    /\ DATABASES' = [DATABASES EXCEPT ![a] = cfg]

\* settings.DATABASES.pop(alias, None)
SettingsPop(a) ==
    /\ DATABASES' = [DATABASES EXCEPT ![a] = NoCfg]
    /\ connDatabases' = [connDatabases EXCEPT ![a] = NoCfg]

\* connections.databases.pop(alias, None)
ConnectionsPop(a) ==
    /\ connDatabases' = [connDatabases EXCEPT ![a] = NoCfg]
    /\ DATABASES' = [DATABASES EXCEPT ![a] = NoCfg]

----------------------------------------------------------------------------
(* Actions *)

\* A caller invokes ensure_alias_for_client(client_id=..., client_username=...).
ensure_alias_for_client(w, args) ==
    /\ pc[w] = "idle"
    /\ \E a \in args : arg' = [arg EXCEPT ![w] = a]
    /\ op' = [op EXCEPT ![w] = "ensure"]
    /\ Goto(w, "e_fetch", NoData, NoPw)
    /\ UNCHANGED <<regVars, hist, reqVars>>
    /\ UNCHANGED auxVars

\* A caller invokes refresh_alias_for_client(client_id=..., client_username=...).
refresh_alias_for_client(w, args) ==
    /\ pc[w] = "idle"
    /\ \E a \in args : arg' = [arg EXCEPT ![w] = a]
    /\ op' = [op EXCEPT ![w] = "refresh"]
    /\ Goto(w, "r_fetch", NoData, NoPw)
    /\ UNCHANGED <<regVars, hist, reqVars>>
    /\ UNCHANGED auxVars

\* Variant: a non-200 answer raises without the upstream status and body.
fetch_client_db_info_bare_error(w, shapes) ==
    /\ pc[w] \in {"e_fetch", "r_fetch"}
    /\ LET req == FetchRequest(arg[w]) IN
       IF req = NoReq
       THEN /\ Raised(w, "ValueError", "args", NoData)
            /\ UNCHANGED hist
       ELSE \E st \in Statuses :
            /\ hist' = [hist EXCEPT ![w].dirCalls = @ + 1, ![w].req = req,
                                    ![w].dirAnswer =
                                        IF st = 200 THEN [status |-> 200, text |-> ""]
                                        ELSE [status |-> st, text |-> ErrorText(st)],
                                    ![w].fetched =
                                        IF st = 200
                                        THEN @ \cup {dirVersion[TenantOfReq(req)]}
                                        ELSE @]
            /\ IF st # 200
               THEN Raised(w, "RuntimeError", "resolve", NoData)
               ELSE \E sh \in shapes :
                    LET body == Body(TenantOfReq(req), dirVersion[TenantOfReq(req)], sh) IN
                    IF MissingKey(body) \/ MissingPassword(body)
                    THEN Raised(w, "RuntimeError", "resolve", body)
                    ELSE Goto(w, IF pc[w] = "e_fetch" THEN "e_check" ELSE "r_pop_settings",
                              body, NoPw)
    /\ UNCHANGED <<regVars, op, arg, reqVars>>
    /\ UNCHANGED auxVars

\* utils.py 68-106, called at 113 (ensure) and 152 (refresh).  hist keeps
\* what the directory answered.
fetch_client_db_info(w, shapes) ==
    /\ pc[w] \in {"e_fetch", "r_fetch"}
    /\ LET req == FetchRequest(arg[w]) IN
       IF req = NoReq
       THEN /\ Raised(w, "ValueError", "args", NoData)
            /\ UNCHANGED hist
       ELSE \E st \in Statuses :
            /\ hist' = [hist EXCEPT ![w].dirCalls = @ + 1, ![w].req = req,
                                    ![w].dirAnswer =
                                        IF st = 200 THEN [status |-> 200, text |-> ""]
                                        ELSE [status |-> st, text |-> ErrorText(st)],
                                    ![w].fetched =
                                        IF st = 200
                                        THEN @ \cup {dirVersion[TenantOfReq(req)]}
                                        ELSE @]
            /\ IF st # 200
               THEN RaisedWith(w, "RuntimeError", "resolve", NoData,
                               [status |-> st, text |-> ErrorText(st)])
               ELSE \E sh \in shapes :
                    LET body == Body(TenantOfReq(req), dirVersion[TenantOfReq(req)], sh) IN
                    IF MissingKey(body) \/ MissingPassword(body)
                    THEN Raised(w, "RuntimeError", "resolve", body)
                    ELSE Goto(w, IF pc[w] = "e_fetch" THEN "e_check" ELSE "r_pop_settings",
                              body, NoPw)
    /\ UNCHANGED <<regVars, op, arg, reqVars>>
    /\ UNCHANGED auxVars

\* utils.py 153-159: close the pooled connection, settings.DATABASES.pop(alias, None).
\* Variant: the eviction empties the whole registry.
refresh_pop_settings_clearing_all(w) ==
    /\ pc[w] = "r_pop_settings"
    /\ DATABASES' = [a \in Aliases |-> NoCfg]
    /\ connDatabases' = [a \in Aliases |-> NoCfg]
    /\ hist' = [hist EXCEPT ![w].evicted = @ \/ DATABASES[data[w].alias] # NoCfg]
    /\ Goto(w, "r_pop_conns", data[w], NoPw)
    /\ UNCHANGED <<dirVersion, op, arg, reqVars>>
    /\ UNCHANGED auxVars

refresh_pop_settings(w) ==
    /\ pc[w] = "r_pop_settings"
    /\ SettingsPop(data[w].alias)
    /\ hist' = [hist EXCEPT ![w].evicted = @ \/ DATABASES[data[w].alias] # NoCfg]
    /\ Goto(w, "r_pop_conns", data[w], NoPw)
    /\ UNCHANGED <<dirVersion, op, arg, reqVars>>
    /\ UNCHANGED auxVars

\* utils.py 160-165: connections.databases.pop(alias, None), then ensure_alias_for_client.
refresh_pop_connections(w) ==
    /\ pc[w] = "r_pop_conns"
    /\ ConnectionsPop(data[w].alias)
    /\ Goto(w, "e_fetch", NoData, NoPw)
    /\ UNCHANGED <<dirVersion, op, arg, hist, reqVars>>
    /\ UNCHANGED auxVars

\* utils.py 114-118: `if alias in settings.DATABASES: return alias`.
check_registered(w) ==
    /\ pc[w] = "e_check"
    /\ IF DATABASES[data[w].alias] # NoCfg
       THEN Returned(w, data[w].alias)
       ELSE Goto(w, "e_decrypt", data[w], NoPw)
    /\ UNCHANGED <<regVars, op, arg, hist, reqVars>>
    /\ UNCHANGED auxVars

\* Variant: the password field is handed to the probe as it came.
decrypt_password_skipped(w) ==
    /\ pc[w] = "e_decrypt"
    /\ IF "db_password_encrypted" \in DOMAIN data[w]
       THEN Goto(w, "e_probe", data[w], data[w].db_password_encrypted)
       ELSE Goto(w, "e_probe", data[w], data[w].db_password)
    /\ UNCHANGED <<regVars, op, arg, hist, reqVars>>
    /\ UNCHANGED auxVars

\* Variant: db_password is used whenever the record has one.
decrypt_password_preferring_plain(w) ==
    /\ pc[w] = "e_decrypt"
    /\ IF "db_password" \notin DOMAIN data[w]
       THEN /\ hist' = [hist EXCEPT ![w].decrypts = @ + 1,
                                    ![w].keyReads = @ + 1,
                                    ![w].logged = @ \cup
                                        LogDecrypt(data[w].db_password_encrypted)]
            /\ IF DecryptOk(data[w].db_password_encrypted)
               THEN Goto(w, "e_probe", data[w],
                         DecryptedPlain(data[w].db_password_encrypted))
               ELSE Raised(w, "InvalidToken", "decrypt", NoData)
       ELSE /\ Goto(w, "e_probe", data[w], data[w].db_password)
            /\ UNCHANGED hist
    /\ UNCHANGED <<regVars, op, arg, reqVars>>
    /\ UNCHANGED auxVars

\* Variant: a ciphertext that does not decrypt is passed on as the password.
decrypt_password_falling_back(w) ==
    /\ pc[w] = "e_decrypt"
    /\ IF "db_password_encrypted" \in DOMAIN data[w]
       THEN /\ hist' = [hist EXCEPT ![w].decrypts = @ + 1,
                                    ![w].keyReads = @ + 1,
                                    ![w].logged = @ \cup
                                        LogDecrypt(data[w].db_password_encrypted)]
            /\ IF DecryptOk(data[w].db_password_encrypted)
               THEN Goto(w, "e_probe", data[w],
                         DecryptedPlain(data[w].db_password_encrypted))
               ELSE Goto(w, "e_probe", data[w], data[w].db_password_encrypted)
       ELSE /\ Goto(w, "e_probe", data[w], data[w].db_password)
            /\ UNCHANGED hist
    /\ UNCHANGED <<regVars, op, arg, reqVars>>
    /\ UNCHANGED auxVars

\* utils.py 120-124 with decrypt_password (10-15).
decrypt_password(w) ==
    /\ pc[w] = "e_decrypt"
    /\ IF "db_password_encrypted" \in DOMAIN data[w]
       THEN /\ hist' = [hist EXCEPT ![w].decrypts = @ + 1,
                                    ![w].keyReads = @ + 1,
                                    ![w].logged = @ \cup
                                        LogDecrypt(data[w].db_password_encrypted)]
            /\ IF DecryptOk(data[w].db_password_encrypted)
               THEN Goto(w, "e_probe", data[w],
                         DecryptedPlain(data[w].db_password_encrypted))
               ELSE Raised(w, "InvalidToken", "decrypt", NoData)
       ELSE /\ Goto(w, "e_probe", data[w], data[w].db_password)
            /\ UNCHANGED hist
    /\ UNCHANGED <<regVars, op, arg, reqVars>>
    /\ UNCHANGED auxVars

\* Variant: the probe's result is not looked at.
test_db_connection_result_ignored(w) ==
    /\ pc[w] = "e_probe"
    /\ \E ok \in BOOLEAN :
       /\ hist' = [hist EXCEPT ![w].probes = @ + 1,
                               ![w].probed = Cfg(data[w], real_pw[w]),
                               ![w].logged = @ \cup LogTarget(data[w]),
                               ![w].probeFailed = @ \/ ~ok]
       /\ Goto(w, "e_add_settings", data[w], real_pw[w])
    /\ UNCHANGED <<regVars, op, arg, reqVars>>
    /\ UNCHANGED auxVars

\* utils.py 126-135 with test_db_connection (39-54): the tenant database
\* accepts the probe connection or it does not.
test_db_connection(w) ==
    /\ pc[w] = "e_probe"
    /\ \E ok \in BOOLEAN :
       /\ hist' = [hist EXCEPT ![w].probes = @ + 1,
                               ![w].probed = Cfg(data[w], real_pw[w]),
                               ![w].logged = @ \cup LogTarget(data[w]),
                               ![w].probeFailed = @ \/ ~ok]
       /\ IF ok
          THEN Goto(w, "e_add_settings", data[w], real_pw[w])
          ELSE Raised(w, "RuntimeError", "probe", NoData)
    /\ UNCHANGED <<regVars, op, arg, reqVars>>
    /\ UNCHANGED auxVars

\* Variant: insert-only registration, raising when the alias is present.
add_db_alias_settings_insert_only(w) ==
    /\ pc[w] = "e_add_settings"
    /\ IF DATABASES[data[w].alias] # NoCfg
       THEN /\ Raised(w, "AlreadyRegistered", "register", NoData)
            /\ UNCHANGED <<DATABASES, connDatabases, hist>>
       ELSE /\ SettingsPut(data[w].alias, Cfg(data[w], real_pw[w]))
            /\ hist' = [hist EXCEPT ![w].wrote = TRUE,
                                    ![w].logged = @ \cup LogTarget(data[w])]
            /\ Goto(w, "e_add_conns", data[w], real_pw[w])
    /\ UNCHANGED <<dirVersion, op, arg, reqVars>>
    /\ UNCHANGED auxVars

\* utils.py 17-34: add_db_alias up to `settings.DATABASES[alias] = cfg`.
add_db_alias_settings(w) ==
    /\ pc[w] = "e_add_settings"
    /\ SettingsPut(data[w].alias, Cfg(data[w], real_pw[w]))
    /\ hist' = [hist EXCEPT ![w].wrote = TRUE,
                            ![w].logged = @ \cup LogTarget(data[w])]
    /\ Goto(w, "e_add_conns", data[w], real_pw[w])
    /\ UNCHANGED <<dirVersion, op, arg, reqVars>>
    /\ UNCHANGED auxVars

\* Variant: the call raises once settings.DATABASES has the alias.
add_db_alias_connections_raising(w) ==
    /\ pc[w] = "e_add_conns"
    /\ Raised(w, "RuntimeError", "register", NoData)
    /\ UNCHANGED <<regVars, op, arg, hist, reqVars>>
    /\ UNCHANGED auxVars

\* utils.py 35-37 and 146: `connections.databases[alias] = cfg`, return alias.
add_db_alias_connections(w) ==
    /\ pc[w] = "e_add_conns"
    /\ ConnectionsPut(data[w].alias, Cfg(data[w], real_pw[w]))
    /\ Returned(w, data[w].alias)
    /\ UNCHANGED <<dirVersion, op, arg, hist, reqVars>>
    /\ UNCHANGED auxVars

\* The caller has the result; the worker is free for its next call.
Finish(w) ==
    /\ pc[w] = "done"
    /\ pc' = [pc EXCEPT ![w] = "idle"]
    /\ op' = [op EXCEPT ![w] = "none"]
    /\ arg' = [arg EXCEPT ![w] = [client_id |-> NoId, client_username |-> NoName]]
    /\ data' = [data EXCEPT ![w] = NoData]
    /\ real_pw' = [real_pw EXCEPT ![w] = NoPw]
    /\ outcome' = [outcome EXCEPT ![w] = NoOutcome]
    /\ hist' = [hist EXCEPT ![w] = HistInit]
    /\ UNCHANGED <<regVars, reqVars>>
    /\ UNCHANGED auxVars

\* The central accounts service rotates a tenant's credentials.
RotateCredentials(t) ==
    /\ dirVersion[t] < MaxVersion
    /\ dirVersion' = [dirVersion EXCEPT ![t] = @ + 1]
    /\ UNCHANGED <<DATABASES, connDatabases, callVars, reqVars>>
    /\ UNCHANGED auxVars

----------------------------------------------------------------------------
(* Requests: rest_framework's APIView.dispatch runs initial(), the handler, *)
(* handle_exception() for an exception of either, then finalize_response(); *)
(* an exception handle_exception() does not know is raised again and       *)
(* leaves dispatch before finalize_response().                              *)

Registered(a)     == a \in Aliases /\ DATABASES[a] # NoCfg
ConnRegistered(a) == a \in Aliases /\ connDatabases[a] # NoCfg

\* Exceptions rest_framework turns into a response.
ApiExceptions == {"AuthenticationFailed", "APIException", "PermissionDenied",
                  "ValidationError"}

StatusOf(kind) ==
    CASE kind = "AuthenticationFailed" -> 401
      [] kind = "PermissionDenied"     -> 403
      [] kind = "ValidationError"      -> 400
      [] OTHER                         -> 500

\* The request raises `kind` inside dispatch's try block.
RaiseInRequest(w, kind, stage) ==
    /\ pc' = [pc EXCEPT ![w] = "q_exc"]
    /\ outcome' = [outcome EXCEPT ![w] =
                      [kind |-> kind, stage |-> stage, alias |-> "none",
                       detail |-> NoDetail]]

\* views.py 75-80: the arguments _ensure_alias_ready passes on.
AliasReadyArgs(tk) ==
    IF tk.client_username # NoName
        THEN [client_id |-> NoId, client_username |-> tk.client_username]
    ELSE IF tk.client_id # NoId
        THEN [client_id |-> tk.client_id, client_username |-> NoName]
    ELSE [client_id |-> CHOOSE t \in Tenants : AliasOf(t) = tk.alias,
          client_username |-> NoName]

\* The alias the handler works with: the token's, except in
\* AssetListAPIView.get with a client_username (views.py 952-957).
RequestAlias(w) ==
    IF request[w].view = "assetlist" /\ request[w].token.client_username # NoName
        THEN outcome[w].alias
        ELSE request[w].token.alias

\* urls.py: a request reaches a view on worker thread w.
dispatch(w) ==
    /\ pc[w] = "idle"
    /\ \E v \in Views : \E tk \in Tokens :
       /\ request' = [request EXCEPT ![w] = [view |-> v, token |-> tk]]
       /\ pc' = [pc EXCEPT ![w] =
                    CASE v \in MixinViews -> "q_initial"
                      [] v = "assetlist" -> "q_get"
                      [] v = "global"    -> "q_global"]
    /\ op' = [op EXCEPT ![w] = "request"]
    /\ UNCHANGED <<regVars, arg, data, real_pw, outcome, hist,
                   frame, tenantCtx, stmt, resp>>
    /\ UNCHANGED auxVars

\* Variant: _ensure_alias_ready without its look at settings.DATABASES.
ensure_alias_ready_always_resolving(w) ==
    /\ pc[w] \in {"q_initial", "q_alias"}
    /\ LET tk == request[w].token IN
       IF tk.alias = ""
       THEN /\ RaiseInRequest(w, "AuthenticationFailed", "identify")
            /\ UNCHANGED <<arg, frame>>
       ELSE /\ arg' = [arg EXCEPT ![w] = AliasReadyArgs(tk)]
            /\ frame' = [frame EXCEPT ![w] = IF pc[w] = "q_initial" THEN "initial" ELSE "handler"]
            /\ pc' = [pc EXCEPT ![w] = "e_fetch"]
            /\ UNCHANGED outcome
    /\ UNCHANGED <<regVars, op, data, real_pw, hist, request, tenantCtx, stmt, resp>>
    /\ UNCHANGED auxVars

\* views.py 69-83: _ensure_alias_ready, called by initial() (91) and by the
\* handler through _alias() (113).
ensure_alias_ready(w) ==
    /\ pc[w] \in {"q_initial", "q_alias"}
    /\ LET tk == request[w].token IN
       IF tk.alias = ""
       THEN /\ RaiseInRequest(w, "AuthenticationFailed", "identify")
            /\ UNCHANGED <<arg, frame>>
       ELSE IF Registered(tk.alias)
       THEN /\ pc' = [pc EXCEPT ![w] = IF pc[w] = "q_initial" THEN "q_set_ctx" ELSE "q_stmt"]
            /\ UNCHANGED <<arg, frame, outcome>>
       ELSE /\ arg' = [arg EXCEPT ![w] = AliasReadyArgs(tk)]
            /\ frame' = [frame EXCEPT ![w] = IF pc[w] = "q_initial" THEN "initial" ELSE "handler"]
            /\ pc' = [pc EXCEPT ![w] = "e_fetch"]
            /\ UNCHANGED outcome
    /\ UNCHANGED <<regVars, op, data, real_pw, hist, request, tenantCtx, stmt, resp>>
    /\ UNCHANGED auxVars

\* Variant: initial() goes on without set_current_tenant(alias).
initial_without_set(w) ==
    /\ pc[w] = "q_set_ctx"
    /\ \E allowed \in BOOLEAN :
       IF allowed
       THEN /\ pc' = [pc EXCEPT ![w] =
                         IF request[w].view = "bundle" THEN "q_post" ELSE "q_alias"]
            /\ UNCHANGED outcome
       ELSE RaiseInRequest(w, "PermissionDenied", "permission")
    /\ UNCHANGED <<regVars, op, arg, data, real_pw, hist, frame, request, tenantCtx, stmt, resp>>
    /\ UNCHANGED auxVars

\* views.py 92-93: set_current_tenant(alias), then APIView.initial(), whose
\* authentication / permission / throttle checks pass or raise.
initial(w) ==
    /\ pc[w] = "q_set_ctx"
    /\ tenantCtx' = [tenantCtx EXCEPT ![w] = request[w].token.alias]
    /\ hist' = [hist EXCEPT ![w].ctxSet = TRUE]
    /\ \E allowed \in BOOLEAN :
       IF allowed
       THEN /\ pc' = [pc EXCEPT ![w] =
                         IF request[w].view = "bundle" THEN "q_post" ELSE "q_alias"]
            /\ UNCHANGED outcome
       ELSE RaiseInRequest(w, "PermissionDenied", "permission")
    /\ UNCHANGED <<regVars, op, arg, data, real_pw, frame, request, stmt, resp>>
    /\ UNCHANGED auxVars

\* A handler of a mixin view, e.g. LocationListCreateAPIView.create
\* (views.py 172-181): statements go to `alias`; it returns a response,
\* raises a rest_framework exception (is_valid) or raises another exception
\* (full_clean's django ValidationError, a database error).  With the alias
\* absent from connections.databases the statement itself raises.
handler(w) ==
    /\ pc[w] = "q_stmt" /\ request[w].view = "mixin"
    /\ IF ConnRegistered(RequestAlias(w))
       THEN /\ stmt' = [stmt EXCEPT ![w] = RequestAlias(w)]
            /\ \E result \in {"response", "ValidationError", "DatabaseError"} :
               IF result = "response"
               THEN /\ pc' = [pc EXCEPT ![w] = "q_finalize"]
                    /\ resp' = [resp EXCEPT ![w].status = 200]
                    /\ UNCHANGED outcome
               ELSE /\ RaiseInRequest(w, result, "handler")
                    /\ UNCHANGED resp
       ELSE /\ RaiseInRequest(w, "ConnectionDoesNotExist", "handler")
            /\ UNCHANGED <<stmt, resp>>
    /\ UNCHANGED <<regVars, op, arg, data, real_pw, hist, frame, request, tenantCtx>>
    /\ UNCHANGED auxVars

\* views.py 366-370: AssetBundleCreateAPIView.post starts with its own
\* permission check, answered with 403 and stage "permission".
AssetBundleCreateAPIView_post(w) ==
    /\ pc[w] = "q_post"
    /\ \E allowed \in BOOLEAN :
       IF allowed
       THEN pc' = [pc EXCEPT ![w] = "q_alias"] /\ UNCHANGED resp
       ELSE /\ pc' = [pc EXCEPT ![w] = "q_finalize"]
            /\ resp' = [resp EXCEPT ![w].status = 403, ![w].stage = "permission"]
    /\ UNCHANGED <<regVars, op, arg, data, real_pw, outcome, hist,
                   frame, request, tenantCtx, stmt>>
    /\ UNCHANGED auxVars

\* views.py 372-380: `except Exception` around _ensure_alias_ready and the
\* connection check, answered by _fail (283-299) with 400 and stage
\* "db_connect".
AssetBundleCreateAPIView_db_connect_failed(w) ==
    /\ pc[w] = "q_fail"
    /\ pc' = [pc EXCEPT ![w] = "q_finalize"]
    /\ resp' = [resp EXCEPT ![w].status = 400, ![w].stage = "db_connect"]
    /\ UNCHANGED <<regVars, op, arg, data, real_pw, outcome, hist,
                   frame, request, tenantCtx, stmt>>
    /\ UNCHANGED auxVars

\* views.py 374-474: the connection check on connections[alias], then the
\* bundle is written `.using(alias)`; every exception is answered by the
\* handler itself with 400 and the stage that failed.
AssetBundleCreateAPIView_create(w) ==
    /\ pc[w] = "q_stmt" /\ request[w].view = "bundle"
    /\ IF ConnRegistered(RequestAlias(w))
       THEN /\ stmt' = [stmt EXCEPT ![w] = RequestAlias(w)]
            /\ \E stage \in {"none", "parse", "serializer", "model_clean",
                              "integrity", "unknown"} :
               resp' = [resp EXCEPT ![w].status = IF stage = "none" THEN 201 ELSE 400,
                                    ![w].stage = stage]
       ELSE /\ resp' = [resp EXCEPT ![w].status = 400, ![w].stage = "db_connect"]
            /\ UNCHANGED stmt
    /\ pc' = [pc EXCEPT ![w] = "q_finalize"]
    /\ UNCHANGED <<regVars, op, arg, data, real_pw, outcome, hist,
                   frame, request, tenantCtx>>
    /\ UNCHANGED auxVars

\* rest_framework: handle_exception() answers an API exception with a
\* response; any other exception leaves dispatch, finalize_response() unrun.
handle_exception(w) ==
    /\ pc[w] = "q_exc"
    /\ IF outcome[w].kind \in ApiExceptions
       THEN /\ pc' = [pc EXCEPT ![w] = "q_finalize"]
            /\ resp' = [resp EXCEPT ![w].status = StatusOf(outcome[w].kind)]
       ELSE /\ pc' = [pc EXCEPT ![w] = "q_done"]
            /\ resp' = [resp EXCEPT ![w].status = 500]
    /\ UNCHANGED <<regVars, op, arg, data, real_pw, outcome, hist,
                   frame, request, tenantCtx, stmt>>
    /\ UNCHANGED auxVars

\* Variant: finalize_response() without the `finally` clause.
finalize_response_without_clear(w) ==
    /\ pc[w] = "q_finalize"
    /\ resp' = [resp EXCEPT ![w].finalized = TRUE]
    /\ pc' = [pc EXCEPT ![w] = "q_done"]
    /\ UNCHANGED <<regVars, op, arg, data, real_pw, outcome, hist,
                   frame, request, tenantCtx, stmt>>
    /\ UNCHANGED auxVars

\* views.py 95-99 for a mixin view: set_current_tenant(None) in `finally`;
\* APIView.finalize_response for the other views.
finalize_response(w) ==
    /\ pc[w] = "q_finalize"
    /\ tenantCtx' = [tenantCtx EXCEPT ![w] =
                        IF request[w].view \in MixinViews THEN NoTenant ELSE @]
    /\ resp' = [resp EXCEPT ![w].finalized = TRUE]
    /\ pc' = [pc EXCEPT ![w] = "q_done"]
    /\ UNCHANGED <<regVars, op, arg, data, real_pw, outcome, hist,
                   frame, request, stmt>>
    /\ UNCHANGED auxVars

\* views.py 942-963: AssetListAPIView.get picks its alias.
AssetListAPIView_get(w) ==
    /\ pc[w] = "q_get"
    /\ LET tk == request[w].token IN
       IF tk.client_username = NoName /\ tk.alias # ""
       THEN /\ pc' = [pc EXCEPT ![w] = "q_get_stmt"]
            /\ UNCHANGED <<arg, frame, resp>>
       ELSE IF tk.client_username # NoName
       THEN /\ arg' = [arg EXCEPT ![w] =
                          [client_id |-> NoId, client_username |-> tk.client_username]]
            /\ frame' = [frame EXCEPT ![w] = "get"]
            /\ pc' = [pc EXCEPT ![w] = "e_fetch"]
            /\ UNCHANGED resp
       ELSE /\ pc' = [pc EXCEPT ![w] = "q_finalize"]
            /\ resp' = [resp EXCEPT ![w].status = 500]
            /\ UNCHANGED <<arg, frame>>
    /\ UNCHANGED <<regVars, op, data, real_pw, outcome, hist, request, tenantCtx, stmt>>
    /\ UNCHANGED auxVars

\* views.py 965-979: `SELECT 1` on connections[alias], then the queryset
\* `.using(alias)`; a failure of the first is answered with 500.
AssetListAPIView_query(w) ==
    /\ pc[w] = "q_get_stmt"
    /\ IF ConnRegistered(RequestAlias(w))
       THEN /\ stmt' = [stmt EXCEPT ![w] = RequestAlias(w)]
            /\ resp' = [resp EXCEPT ![w].status = 200]
       ELSE /\ resp' = [resp EXCEPT ![w].status = 500]
            /\ UNCHANGED stmt
    /\ pc' = [pc EXCEPT ![w] = "q_finalize"]
    /\ UNCHANGED <<regVars, op, arg, data, real_pw, outcome, hist,
                   frame, request, tenantCtx>>
    /\ UNCHANGED auxVars

\* The database router: the thread's current tenant, else "default".
RouterDb(w) == IF tenantCtx[w] # NoTenant THEN tenantCtx[w] ELSE "default"

\* views.py 209-210: GlobalLocationListCreateAPIView.get_queryset,
\* Location.objects.all() with no `.using(alias)`.
GlobalLocation_get_queryset(w) ==
    /\ pc[w] = "q_global"
    /\ stmt' = [stmt EXCEPT ![w] = RouterDb(w)]
    /\ resp' = [resp EXCEPT ![w].status = 200]
    /\ pc' = [pc EXCEPT ![w] = "q_finalize"]
    /\ UNCHANGED <<regVars, op, arg, data, real_pw, outcome, hist,
                   frame, request, tenantCtx>>
    /\ UNCHANGED auxVars

\* The request is over; the thread goes back to the pool, its thread-local
\* tenant as the request left it.
end_request(w) ==
    /\ pc[w] = "q_done"
    /\ pc' = [pc EXCEPT ![w] = "idle"]
    /\ op' = [op EXCEPT ![w] = "none"]
    /\ arg' = [arg EXCEPT ![w] = [client_id |-> NoId, client_username |-> NoName]]
    /\ data' = [data EXCEPT ![w] = NoData]
    /\ real_pw' = [real_pw EXCEPT ![w] = NoPw]
    /\ outcome' = [outcome EXCEPT ![w] = NoOutcome]
    /\ hist' = [hist EXCEPT ![w] = HistInit]
    /\ frame' = [frame EXCEPT ![w] = "caller"]
    /\ request' = [request EXCEPT ![w] = NoRequest]
    /\ stmt' = [stmt EXCEPT ![w] = NoStmt]
    /\ resp' = [resp EXCEPT ![w] = NoResp]
    /\ UNCHANGED <<regVars, tenantCtx>>
    /\ UNCHANGED auxVars

\* Shapes of directory answers while requests are served.
RequestShapes == {<<"enc">>, <<"plain">>}

\* Worker threads serve requests, one at a time each.
NextReq ==
    \/ \E w \in Workers : dispatch(w)
    \/ \E w \in Workers : ensure_alias_ready(w)
    \/ \E w \in Workers : fetch_client_db_info(w, RequestShapes)
    \/ \E w \in Workers : check_registered(w)
    \/ \E w \in Workers : decrypt_password(w)
    \/ \E w \in Workers : test_db_connection(w)
    \/ \E w \in Workers : add_db_alias_settings(w)
    \/ \E w \in Workers : add_db_alias_connections(w)
    \/ \E w \in Workers : initial(w)
    \/ \E w \in Workers : handler(w)
    \/ \E w \in Workers : AssetBundleCreateAPIView_post(w)
    \/ \E w \in Workers : AssetBundleCreateAPIView_db_connect_failed(w)
    \/ \E w \in Workers : AssetBundleCreateAPIView_create(w)
    \/ \E w \in Workers : handle_exception(w)
    \/ \E w \in Workers : finalize_response(w)
    \/ \E w \in Workers : AssetListAPIView_get(w)
    \/ \E w \in Workers : AssetListAPIView_query(w)
    \/ \E w \in Workers : GlobalLocation_get_queryset(w)
    \/ \E w \in Workers : end_request(w)

SpecReq == Init /\ [][NextReq]_vars

\* Two workers race for one tenant's alias.
Next ==
    \/ \E w \in Workers : ensure_alias_for_client(w, ArgSet)
    \/ \E w \in Workers : refresh_alias_for_client(w, ArgSet)
    \/ \E w \in Workers : fetch_client_db_info(w, WellFormedShapes)
    \/ \E w \in Workers : refresh_pop_settings(w)
    \/ \E w \in Workers : refresh_pop_connections(w)
    \/ \E w \in Workers : check_registered(w)
    \/ \E w \in Workers : decrypt_password(w)
    \/ \E w \in Workers : test_db_connection(w)
    \/ \E w \in Workers : add_db_alias_settings(w)
    \/ \E w \in Workers : add_db_alias_connections(w)
    \/ \E w \in Workers : Finish(w)
    \/ \E t \in RotatingTenants : RotateCredentials(t)

Spec == Init /\ [][Next]_vars

\* Two workers race through ensure_alias_for_client only; nothing evicts.
NextEnsure ==
    \/ \E w \in Workers : ensure_alias_for_client(w, ArgSet)
    \/ \E w \in Workers : fetch_client_db_info(w, WellFormedShapes)
    \/ \E w \in Workers : check_registered(w)
    \/ \E w \in Workers : decrypt_password(w)
    \/ \E w \in Workers : test_db_connection(w)
    \/ \E w \in Workers : add_db_alias_settings(w)
    \/ \E w \in Workers : add_db_alias_connections(w)
    \/ \E w \in Workers : Finish(w)
    \/ \E t \in RotatingTenants : RotateCredentials(t)

SpecEnsure == Init /\ [][NextEnsure]_vars

\* One worker makes call after call, with every argument pair and every
\* shape of directory answer.
SeqWorker == "w1"

NextSeq ==
    \/ ensure_alias_for_client(SeqWorker, AllArgs)
    \/ refresh_alias_for_client(SeqWorker, AllArgs)
    \/ fetch_client_db_info(SeqWorker, AllShapes)
    \/ refresh_pop_settings(SeqWorker)
    \/ refresh_pop_connections(SeqWorker)
    \/ check_registered(SeqWorker)
    \/ decrypt_password(SeqWorker)
    \/ test_db_connection(SeqWorker)
    \/ add_db_alias_settings(SeqWorker)
    \/ add_db_alias_connections(SeqWorker)
    \/ Finish(SeqWorker)
    \/ \E t \in Tenants : RotateCredentials(t)

SpecSeq == Init /\ [][NextSeq]_vars

\* One worker refreshes a tenant's alias while the other runs
\* ensure_alias_for_client for the same tenant.
RefreshWorker == "w1"
EnsureWorker  == "w2"

NextRefresh ==
    \/ refresh_alias_for_client(RefreshWorker, ArgSet)
    \/ ensure_alias_for_client(EnsureWorker, ArgSet)
    \/ \E w \in Workers : fetch_client_db_info(w, WellFormedShapes)
    \/ refresh_pop_settings(RefreshWorker)
    \/ refresh_pop_connections(RefreshWorker)
    \/ \E w \in Workers : check_registered(w)
    \/ \E w \in Workers : decrypt_password(w)
    \/ \E w \in Workers : test_db_connection(w)
    \/ \E w \in Workers : add_db_alias_settings(w)
    \/ \E w \in Workers : add_db_alias_connections(w)
    \/ \E w \in Workers : Finish(w)
    \/ \E t \in RotatingTenants : RotateCredentials(t)

SpecRefresh == Init /\ [][NextRefresh]_vars

----------------------------------------------------------------------------
(* Properties of the alias registry and of the credential resolver *)

\* The environment refused the call: directory error, undecryptable
\* password or unreachable tenant database.
EnvRefused(w) == outcome[w].stage \in {"resolve", "decrypt", "probe"}

HasFailed(w) == pc[w] = "done" /\ outcome[w].kind \notin {"ok", "none"}

\* C1: when two workers have both run ensure_alias_for_client for the same
\* tenant and the environment refused neither, neither call raised, both
\* returned the same alias, and that alias has its one entry in both
\* registry maps.
C1_ConcurrentEnsureIdempotent ==
    \A w1 \in Workers : \A w2 \in Workers \ {w1} :
        ( /\ pc[w1] = "done" /\ pc[w2] = "done"
          /\ op[w1] = "ensure" /\ op[w2] = "ensure"
          /\ ~EnvRefused(w1) /\ ~EnvRefused(w2) )
        => /\ outcome[w1].kind = "ok" /\ outcome[w2].kind = "ok"
           /\ outcome[w1].alias = outcome[w2].alias
           /\ DATABASES[outcome[w1].alias] # NoCfg
           /\ connDatabases[outcome[w1].alias] # NoCfg

\* Both calls found the alias unregistered and both registered it.
C1_Witness ==
    \A w \in Workers :
        pc[w] = "done" /\ op[w] = "ensure" /\ outcome[w].kind = "ok" /\ hist[w].wrote

\* C2: add_db_alias reached with the alias already in settings.DATABASES
\* fails with AlreadyRegistered and leaves the registry as it was.
C2_RegisterInsertOnly ==
    [][\A w \in Workers :
          ( /\ pc[w] = "e_add_settings"
            /\ pc'[w] # "e_add_settings"
            /\ DATABASES[data[w].alias] # NoCfg )
          => /\ outcome'[w].kind = "AlreadyRegistered"
             /\ DATABASES' = DATABASES]_vars

\* C3: the configuration stored under a registered alias does not change
\* until the alias is evicted.
C3_NoOverwriteUntilEvicted ==
    [][\A a \in Aliases :
          (DATABASES[a] # NoCfg /\ DATABASES'[a] # NoCfg)
          => DATABASES'[a] = DATABASES[a]]_vars

\* C4: a call whose connectivity probe failed has raised, and has not
\* called add_db_alias.
C4_ProbeFailureRegistersNothing ==
    \A w \in Workers :
        hist[w].probeFailed
        => /\ pc[w] = "done"
           /\ outcome[w].kind = "RuntimeError"
           /\ outcome[w].stage = "probe"
           /\ ~hist[w].wrote

C4_Witness ==
    \E w \in Workers :
        op[w] = "ensure" /\ hist[w].probeFailed /\ pc[w] = "done"

\* C6: every refresh_alias_for_client that returned has run a probe.
C6_RefreshAlwaysProbes ==
    \A w \in Workers :
        (pc[w] = "done" /\ op[w] = "refresh" /\ outcome[w].kind = "ok")
        => hist[w].probes >= 1

\* C7: after a refresh_alias_for_client that raised, an alias that was
\* registered when the call reached it is still registered.
C7_FailedRefreshKeepsRegistry ==
    \A w \in Workers :
        (HasFailed(w) /\ op[w] = "refresh" /\ hist[w].evicted)
        => DATABASES[AliasOf(TenantOfReq(hist[w].req))] # NoCfg

\* A directory record lacking a required field or both password variants.
LacksRequired(d) ==
    /\ "nodata" \notin DOMAIN d
    /\ \/ \E k \in {"alias", "db_name", "db_user", "db_host", "db_port"} :
             k \notin DOMAIN d
       \/ DOMAIN d \cap {"db_password_encrypted", "db_password"} = {}

\* C8: ensure_alias_for_client given such a record has raised at resolve,
\* with no decrypt, no probe and no registration.
C8_IncompleteRecordRejected ==
    \A w \in Workers :
        (op[w] = "ensure" /\ LacksRequired(data[w]))
        => /\ pc[w] = "done"
           /\ outcome[w].kind = "RuntimeError"
           /\ outcome[w].stage = "resolve"
           /\ hist[w].decrypts = 0
           /\ hist[w].probes = 0
           /\ ~hist[w].wrote

C8_Witness ==
    \E w \in Workers :
        op[w] = "ensure" /\ pc[w] = "done" /\ LacksRequired(data[w])

GivenId(a)   == a.client_id # NoId
GivenName(a) == a.client_username # NoName

----------------------------------------------------------------------------
(* Properties of the request-scoped tenant context *)

\* C5: whenever a worker thread is between two requests, its tenant
\* context is none.
C5_ContextClearedOnEveryExit ==
    \A w \in Workers : pc[w] = "idle" => tenantCtx[w] = NoTenant

\* The request has just issued a statement (the handler has run and the
\* response is not finalized yet).
StatementIssued(w) ==
    pc[w] \in {"q_finalize", "q_exc"} /\ stmt[w] # NoStmt

\* C10 as claimed: every statement of a request that carries a tenant goes
\* to the alias held in that request's tenant context.
C10_EveryStatementViaTenantContext ==
    \A w \in Workers :
        (StatementIssued(w) /\ request[w].token # NoToken)
        => (tenantCtx[w] # NoTenant /\ stmt[w] = tenantCtx[w])

\* C10 as the code has it: the statements of a view built on
\* RouterTenantContextMixin go to the alias in the request's tenant
\* context, which is the token's alias.
C10_MixinStatementsViaTenantContext ==
    \A w \in Workers :
        (StatementIssued(w) /\ request[w].view \in MixinViews)
        => /\ stmt[w] = tenantCtx[w]
           /\ stmt[w] = request[w].token.alias

C10_Witness ==
    \E w \in Workers :
        /\ StatementIssued(w) /\ request[w].view = "mixin"
        /\ hist[w].wrote
        /\ stmt[w] = "client_1" /\ tenantCtx[w] = "client_1"

\* Positions inside ensure_alias_for_client.
EnsurePcs == {"e_fetch", "e_check", "e_decrypt", "e_probe",
              "e_add_settings", "e_add_conns"}

\* The handler of the request is executing: from the return of initial()
\* to the handler's return or exception, _alias() calls included.
InHandler(w) ==
    \/ pc[w] \in {"q_post", "q_alias", "q_stmt", "q_fail"}
    \/ pc[w] \in EnsurePcs /\ frame[w] = "handler"
    \/ pc[w] \in {"q_finalize", "q_exc"} /\ stmt[w] # NoStmt

\* C11: in a request to a view built on RouterTenantContextMixin the tenant
\* context equals the request's alias for as long as the handler executes,
\* and is none once the response has been finalized.
C11_ContextHeldThroughHandler ==
    \A w \in Workers :
        request[w].view \in MixinViews
        => /\ InHandler(w) => tenantCtx[w] = request[w].token.alias
           /\ resp[w].finalized => tenantCtx[w] = NoTenant

\* A request that registered its alias, ran its handler against it and
\* was finalized.
C11_Witness ==
    \E w \in Workers :
        /\ request[w].view = "mixin" /\ request[w].token.alias = "client_1"
        /\ hist[w].wrote /\ stmt[w] = "client_1"
        /\ resp[w].finalized /\ resp[w].status = 200
        /\ tenantCtx[w] = NoTenant

----------------------------------------------------------------------------
(* Order of the steps of one request *)

\* C12: a probe is made with a fetched record and, when the record has an
\* encrypted password, with its decryption; an alias is written to the
\* registry only with the configuration this call probed last, the probe
\* having succeeded; the tenant context is set only after the registry
\* check found the alias or ensure_alias_for_client returned.
C12_StepsStrictlySequential ==
    [][\A w \in Workers :
          /\ hist'[w].probes > hist[w].probes
             => /\ hist[w].dirCalls >= 1
                /\ data[w] # NoData
                /\ "db_password_encrypted" \in DOMAIN data[w]
                   => /\ hist[w].decrypts >= 1
                      /\ real_pw[w] = DecryptedPlain(data[w].db_password_encrypted)
          /\ (pc[w] = "e_add_settings" /\ pc'[w] # pc[w])
             => /\ hist[w].probes >= 1 /\ ~hist[w].probeFailed
                /\ DATABASES'[data[w].alias] = hist[w].probed
          /\ (pc[w] = "e_add_conns" /\ pc'[w] # pc[w])
             => connDatabases'[data[w].alias] = hist[w].probed
          /\ (tenantCtx'[w] # tenantCtx[w] /\ tenantCtx'[w] # NoTenant)
             => \/ outcome[w].kind = "ok"
                \/ hist[w].dirCalls = 0 /\ Registered(tenantCtx'[w])]_vars

\* A request went through fetch, decrypt, probe and registration and then
\* set its tenant context.
C12_Witness ==
    \E w \in Workers :
        /\ request[w].view = "mixin" /\ pc[w] = "q_alias"
        /\ hist[w].dirCalls = 1 /\ hist[w].decrypts = 1 /\ hist[w].probes = 1
        /\ hist[w].wrote /\ DATABASES["client_1"] = hist[w].probed
        /\ tenantCtx[w] = "client_1"

\* The request raised before initial() reached set_current_tenant: in
\* _ensure_alias_ready or in the ensure_alias_for_client it called.
AbortedBeforeCommit(w) ==
    /\ request[w].view \in MixinViews
    /\ pc[w] \in {"q_exc", "q_finalize", "q_done"}
    /\ outcome[w].kind \notin {"ok", "none"}
    /\ outcome[w].stage \notin {"permission", "handler"}
    /\ frame[w] # "handler"

\* C13: a request aborted before set_current_tenant has registered no
\* alias and has set no tenant context.
C13_AbortBeforeCommitLeavesNothing ==
    \A w \in Workers :
        AbortedBeforeCommit(w) => (~hist[w].wrote /\ ~hist[w].ctxSet)

\* A request aborted by a failed probe, its credentials resolved and
\* decrypted.
C13_Witness ==
    \E w \in Workers :
        /\ AbortedBeforeCommit(w) /\ outcome[w].stage = "probe"
        /\ hist[w].decrypts = 1 /\ hist[w].probed # NoCfg

----------------------------------------------------------------------------
(* Failures of the resolve step *)

\* The request's tenant resolution failed on a 404 of the directory.
DirectoryAnswered404(w) ==
    /\ op[w] = "request"
    /\ outcome[w].stage = "resolve" /\ outcome[w].detail.status = 404

\* C14: a request whose resolution failed on a directory 404 leaves the
\* registry as it was and is answered with a 4xx response whose stage is
\* "db_connect" or "unknown".
C14_Directory404AnsweredWithStage ==
    \A w \in Workers :
        (DirectoryAnswered404(w) /\ pc[w] = "q_done")
        => /\ hist[w].dirCalls = 1 => ~hist[w].wrote
           /\ resp[w].status >= 400 /\ resp[w].status <= 499
           /\ resp[w].stage \in {"db_connect", "unknown"}

----------------------------------------------------------------------------
(* Identify and check-registry steps *)

\* Views that resolve a tenant for the request.
TenantViews == MixinViews \cup {"assetlist"}

\* C15: a request whose token names no tenant at all (no alias, no id, no
\* username) has failed with AuthenticationFailed, with no directory call,
\* no probe, no registration and no tenant context set.
C15_NoTenantIsAuthenticationFailed ==
    \A w \in Workers :
        ( /\ request[w].view \in TenantViews
          /\ request[w].token = NoToken
          /\ pc[w] = "q_done" )
        => /\ outcome[w].kind = "AuthenticationFailed"
           /\ hist[w].dirCalls = 0 /\ hist[w].probes = 0
           /\ ~hist[w].wrote /\ ~hist[w].ctxSet

\* The alias of the tenant a request is for: the one the directory gives
\* for the token's client_username in AssetListAPIView, else the token's.
TenantAlias(w) ==
    IF request[w].view = "assetlist" /\ request[w].token.client_username # NoName
        THEN AliasOf(TenantOfReq(FetchRequest(
                 [client_id |-> NoId,
                  client_username |-> request[w].token.client_username])))
        ELSE request[w].token.alias

\* C16 as claimed: a request that starts resolving a tenant whose alias is
\* in the registry makes no directory fetch.
C16_KnownAliasSkipsResolution ==
    [][\A w \in Workers :
          ( /\ pc[w] \in {"q_initial", "q_alias", "q_get"} /\ pc'[w] # pc[w]
            /\ request[w].token # NoToken
            /\ Registered(TenantAlias(w)) )
          => pc'[w] # "e_fetch"]_vars

\* C16 as the code has it: _ensure_alias_ready, finding the token's alias
\* in settings.DATABASES, returns at once with nothing fetched, decrypted,
\* probed or registered; ensure_alias_for_client, reached with a fetched
\* record whose alias is registered, returns the alias with nothing
\* decrypted, probed or registered.
C16_KnownAliasSkipsRegistration ==
    [][\A w \in Workers :
          /\ ( /\ pc[w] \in {"q_initial", "q_alias"} /\ pc'[w] # pc[w]
               /\ Registered(request[w].token.alias) )
             => /\ pc'[w] = IF pc[w] = "q_initial" THEN "q_set_ctx" ELSE "q_stmt"
                /\ hist' = hist
                /\ DATABASES' = DATABASES /\ connDatabases' = connDatabases
          /\ ( /\ pc[w] = "e_check" /\ pc'[w] # pc[w]
               /\ Registered(data[w].alias) )
             => /\ pc'[w] \notin EnsurePcs
                /\ outcome'[w].kind = "ok" /\ outcome'[w].alias = data[w].alias
                /\ hist' = hist
                /\ DATABASES' = DATABASES /\ connDatabases' = connDatabases]_vars

\* A request whose alias was registered by an earlier one has set its
\* tenant context without a directory call.
C16_Witness ==
    \E w \in Workers :
        /\ request[w].view \in MixinViews /\ pc[w] \in {"q_alias", "q_post"}
        /\ hist[w].ctxSet /\ hist[w].dirCalls = 0
        /\ Registered(request[w].token.alias)

\* C17: a call to which the directory answered with a status other than
\* 200 has raised the directory error with that status and body, and has
\* decrypted, probed and registered nothing.
C17_Non200IsDirectoryError ==
    \A w \in Workers :
        hist[w].dirAnswer.status \notin {0, 200}
        => /\ pc[w] = "done"
           /\ outcome[w].kind = "RuntimeError" /\ outcome[w].stage = "resolve"
           /\ outcome[w].detail = hist[w].dirAnswer
           /\ hist[w].decrypts = 0 /\ hist[w].probes = 0 /\ ~hist[w].wrote

C17_Witness ==
    \E w \in Workers :
        /\ op[w] = "ensure" /\ pc[w] = "done"
        /\ hist[w].dirAnswer = [status |-> 404, text |-> "Not found"]
        /\ outcome[w].detail.status = 404

----------------------------------------------------------------------------
(* Decrypt step *)

\* The record supplies an encrypted password: it has the field
\* (utils.py 121 looks at the key, not at its value).
SuppliesEncrypted(d) == "db_password_encrypted" \in DOMAIN d

C19_BadCiphertextRaises ==
    [][\A w \in Workers :
          ( /\ pc[w] = "e_decrypt" /\ pc'[w] # pc[w]
            /\ "db_password_encrypted" \in DOMAIN data[w]
            /\ ~DecryptOk(data[w].db_password_encrypted) )
          => /\ pc'[w] = "done"
             /\ outcome'[w].kind = "InvalidToken" /\ outcome'[w].stage = "decrypt"
             /\ hist'[w].probes = 0 /\ ~hist'[w].wrote
             /\ DATABASES' = DATABASES /\ connDatabases' = connDatabases
             /\ hist'[w].logged =
                    {<<"len", Len(data[w].db_password_encrypted)>>}]_vars

\* A call given a ciphertext made with another key has raised.
C19_Witness ==
    \E w \in Workers :
        /\ pc[w] = "done" /\ op[w] = "ensure"
        /\ outcome[w].kind = "InvalidToken"
        /\ hist[w].logged = {<<"len", 3>>}
        /\ hist[w].decrypts = 1 /\ hist[w].probes = 0

----------------------------------------------------------------------------
(* Refresh against concurrent ensure_alias_for_client *)

\* The configuration add_db_alias builds from the directory's record of
\* tenant t at credential version v.
FetchedCfg(t, v) == Cfg(EncRecord(t, v), Plain(v))

\* C20: at the moment refresh_alias_for_client returns, the alias holds a
\* configuration the directory gave to that refresh (or one of a later
\* rotation), never one of credentials older than the refresh fetched.
C20_RefreshInstallsFetchedCfg ==
    [][\A w \in Workers :
          ( /\ op[w] = "refresh" /\ pc[w] # "done" /\ pc'[w] = "done"
            /\ outcome'[w].kind = "ok" )
          => \E v \in hist[w].fetched : \E later \in v..MaxVersion :
                DATABASES'[outcome'[w].alias] =
                    FetchedCfg(TenantOfReq(hist[w].req), later)]_vars

----------------------------------------------------------------------------
(* test_db_connection, statement by statement (utils.py:39-54) *)

\* The aux variables a step of test_db_connection leaves alone.
exceptProbe == <<amc, bundleTx, bundleDb, codeRows, saving, softRows,
                 clock>>

\* What psycopg2.connect(..., connect_timeout=5) can do: hand back a
\* connection, or raise (server refuses, or no answer within the timeout).
ConnectOutcomes == {"connected", "refused", "timeout"}

\* def test_db_connection(name, user, password, host, port): conn = None
test_db_connection_call(w) ==
    /\ probe[w].pc = "idle"
    /\ \E t \in Tenants :
          probe' = [probe EXCEPT ![w] = [NoProbe EXCEPT !.pc = "connect",
                                                        !.target = t]]
    /\ UNCHANGED <<regVars, callVars, reqVars, exceptProbe>>

\* try: conn = psycopg2.connect(...); return True, None
\* except Exception as e: logger.error(...); return False, str(e)
\* Either way the function is left through the finally clause.
test_db_connection_connect(w) ==
    /\ probe[w].pc = "connect"
    /\ \E o \in ConnectOutcomes :
          probe' = [probe EXCEPT
              ![w].pc = "finally",
              ![w].attempts = @ + 1,
              ![w].conn = IF o = "connected" THEN "open" ELSE "none",
              ![w].result = IF o = "connected" THEN "true" ELSE "false",
              ![w].cause = IF o = "connected" THEN "" ELSE o]
    /\ UNCHANGED <<regVars, callVars, reqVars, exceptProbe>>

\* The same, but the function is left with the connection still open.
test_db_connection_finally_without_close(w) ==
    /\ probe[w].pc = "finally"
    /\ probe' = [probe EXCEPT ![w].pc = "returned"]
    /\ UNCHANGED <<regVars, callVars, reqVars, exceptProbe>>

\* finally: if conn: conn.close()
test_db_connection_finally(w) ==
    /\ probe[w].pc = "finally"
    /\ probe' = [probe EXCEPT
          ![w].pc = "returned",
          ![w].conn = IF @ = "open" THEN "closed" ELSE @]
    /\ UNCHANGED <<regVars, callVars, reqVars, exceptProbe>>

\* The caller has taken the (ok, err) pair; the worker is free again.
test_db_connection_return(w) ==
    /\ probe[w].pc = "returned"
    /\ probe' = [probe EXCEPT ![w] = NoProbe]
    /\ UNCHANGED <<regVars, callVars, reqVars, exceptProbe>>

NextProbe ==
    \E w \in Workers :
        \/ test_db_connection_call(w)
        \/ test_db_connection_connect(w)
        \/ test_db_connection_finally(w)
        \/ test_db_connection_return(w)

SpecProbe == Init /\ [][NextProbe]_vars

\* C21: a call of test_db_connection that has returned made exactly one
\* connection attempt, handed back a value (True, or False with the cause)
\* rather than raising, and left no probe connection open.
C21_OneAttemptValueNoOpenConn ==
    \A w \in Workers :
        probe[w].pc = "returned" =>
            /\ probe[w].attempts = 1
            /\ probe[w].result \in {"true", "false"}
            /\ (probe[w].result = "false" <=> probe[w].cause # "")
            /\ probe[w].conn # "open"
            /\ (probe[w].result = "true" <=> probe[w].conn = "closed")

\* One call has returned a failure and another a success whose connection
\* was closed on the way out.
C21_Witness ==
    \E w1, w2 \in Workers :
        /\ probe[w1].pc = "returned" /\ probe[w1].result = "false"
        /\ probe[w1].cause = "timeout" /\ probe[w1].conn = "none"
        /\ probe[w2].pc = "returned" /\ probe[w2].result = "true"
        /\ probe[w2].conn = "closed"

----------------------------------------------------------------------------
(* The decryption key (utils.py:12) *)

\* C22: the decryption key is read once for the whole process, at startup:
\* the decrypt steps of two calls never each read it from the environment.
C22_KeyReadOnceAtStartup ==
    Cardinality({w \in Workers : hist[w].keyReads > 0}) <= 1

----------------------------------------------------------------------------
(* Two tenants side by side *)

\* The thread whose calls may stall for ever in a directory fetch or a
\* probe, and the thread that keeps being scheduled.
SlowWorker == "w1"
BusyWorker == "w2"

\* The tenant each thread works for, and the argument pairs naming it.
TenantOfWorker(w) == IF w = SlowWorker THEN 1 ELSE 2
TenantArgs(w) ==
    {a \in AllArgs : /\ FetchRequest(a) # NoReq
                     /\ TenantOfReq(FetchRequest(a)) = TenantOfWorker(w)
                     /\ (a.client_id = NoId \/ a.client_username = NoName)}

\* One step of worker w through ensure_alias_for_client or
\* refresh_alias_for_client, whatever the directory, the key and the tenant
\* database answer.
RegistryStep(w) ==
    \/ ensure_alias_for_client(w, TenantArgs(w))
    \/ refresh_alias_for_client(w, TenantArgs(w))
    \/ fetch_client_db_info(w, {<<"enc">>, <<"wrongkey">>})
    \/ refresh_pop_settings(w)
    \/ refresh_pop_connections(w)
    \/ check_registered(w)
    \/ decrypt_password(w)
    \/ test_db_connection(w)
    \/ add_db_alias_settings(w)
    \/ add_db_alias_connections(w)
    \/ Finish(w)

NextIsolation == RegistryStep(SlowWorker) \/ RegistryStep(BusyWorker)

\* The code takes no lock and waits for no other thread: the busy thread
\* runs whenever it has a step to take; nothing is assumed of the slow one.
SpecIsolation ==
    Init /\ [][NextIsolation]_vars /\ WF_vars(RegistryStep(BusyWorker))

\* The alias the call of worker w is for: the alias of the tenant it asked
\* the directory about.
CallAlias(w) ==
    IF hist[w].req = NoReq THEN "none" ELSE AliasOf(TenantOfReq(hist[w].req))

\* C23: a step of a call for alias a leaves the registry entry of every
\* other alias as it was, and the call of one thread reaches its end
\* whatever the other thread does, even if that one never gets past its
\* directory fetch or its probe.
C23_TenantsIsolated ==
    /\ [][\A b \in Aliases :
            (DATABASES'[b] # DATABASES[b] \/ connDatabases'[b] # connDatabases[b])
            => \E w \in Workers : pc'[w] # pc[w] /\ CallAlias(w) = b]_vars
    /\ [](pc[BusyWorker] \notin {"idle", "done"} => <>(pc[BusyWorker] = "done"))

\* The slow thread is held in its probe of one tenant's database while the
\* busy thread has registered the alias of another tenant.
C23_Witness ==
    /\ pc[SlowWorker] = "e_probe" /\ pc[BusyWorker] = "done"
    /\ outcome[BusyWorker].kind = "ok" /\ hist[BusyWorker].wrote
    /\ CallAlias(SlowWorker) # CallAlias(BusyWorker)
    /\ DATABASES[CallAlias(SlowWorker)] = NoCfg
    /\ DATABASES[CallAlias(BusyWorker)] # NoCfg

----------------------------------------------------------------------------
(* AssetAMCCreateAPIView.post (views.py:1043-1120) *)

exceptAmc == <<probe, bundleTx, bundleDb, codeRows, saving, softRows, clock>>

\* Rows of AssetWarrantyAMC one asset may collect before the model stops
\* adding more.
MaxAmcRows == 3

\* An Asset instance as the ORM loads it: its columns, and the reverse
\* accessor `warranty_amc` that AssetWarrantyAMC.asset, a ForeignKey with
\* related_name='warranty_amc' (models.py:301), puts on it.
AssetInstance(a) ==
    [id |-> a, asset_name |-> "asset", location_id |-> 1,
     warranty_amc |-> amc.rows[a]]

\* getattr(obj, name, default)
GetAttr(obj, name, default) ==
    IF name \in DOMAIN obj THEN obj[name] ELSE default

\* Python's None, and the truth value of `if x:` for None and for numbers.
None == "None"
Truthy(x) == x # None /\ x # 0

\* views.py:1084: if getattr(asset, "warranty_amc_id", None)
HasAmc(asset) ==
    Truthy(GetAttr(asset, "warranty_amc_id", None))

AmcAnswer(a, st, text) == [asset |-> a, status |-> st, detail |-> text]

\* One POST, from the permission check to the response.
AssetAMCCreateAPIView_post ==
    \E allowed \in BOOLEAN, asset_id \in Assets \cup {NoAsset, 0},
       valid \in BOOLEAN, saved \in BOOLEAN :
       /\ IF ~allowed
          THEN amc' = [amc EXCEPT !.resp = AmcAnswer(0, 403,
                          "You do not have permission to add assets.")]
          ELSE IF asset_id = 0
          THEN amc' = [amc EXCEPT !.resp = AmcAnswer(0, 400,
                          "Missing or invalid 'asset' in request body.")]
          ELSE IF asset_id \notin Assets
          THEN amc' = [amc EXCEPT !.resp = AmcAnswer(asset_id, 404,
                          "Asset not found.")]
          ELSE IF HasAmc(AssetInstance(asset_id))
          THEN amc' = [amc EXCEPT !.resp = AmcAnswer(asset_id, 400,
                          "AMC already exists for this asset.")]
          ELSE IF ~valid
          THEN amc' = [amc EXCEPT !.resp = AmcAnswer(asset_id, 400,
                          "Serializer validation failed.")]
          ELSE IF ~saved
          THEN \* full_clean or save raised: the transaction is rolled
               \* back and the exception raised again
               amc' = [amc EXCEPT !.resp = AmcAnswer(asset_id, 500, "")]
          ELSE /\ amc.rows[asset_id] < MaxAmcRows
               /\ amc' = [amc EXCEPT !.rows[asset_id] = @ + 1,
                                     !.resp = AmcAnswer(asset_id, 201, "")]
       /\ UNCHANGED <<regVars, callVars, reqVars, exceptAmc>>

NextAmc == AssetAMCCreateAPIView_post

SpecAmc == Init /\ [][NextAmc]_vars

\* C24: an asset never has more than one AMC record.
C24_AtMostOneAmcPerAsset ==
    \A a \in Assets : amc.rows[a] <= 1

----------------------------------------------------------------------------
(* The alias a request works with *)

\* Where a request stands once _ensure_alias_ready has returned its alias
\* (to initial() or to the handler), or once AssetListAPIView.get has
\* picked its alias and goes on to query.
AliasInHand == {"q_set_ctx", "q_stmt", "q_get_stmt"}

\* C25: at the moment _ensure_alias_ready returns an alias, and at the
\* moment AssetListAPIView.get goes on to query with an alias, that alias
\* is a key of the registry.
C25_ReturnedAliasIsRegistered ==
    [][\A w \in Workers :
          (pc[w] \notin AliasInHand /\ pc'[w] \in AliasInHand)
          => LET tk == request'[w].token
                 a  == IF request'[w].view = "assetlist"
                          /\ tk.client_username # NoName
                       THEN outcome'[w].alias
                       ELSE tk.alias
             IN  a \in Aliases /\ DATABASES'[a] # NoCfg]_vars

----------------------------------------------------------------------------
(* The two names of the registry *)

----------------------------------------------------------------------------
(* AssetBundleCreateAPIView.post, statement by statement (views.py:365-474) *)
(* Rows are <<request, table>> pairs: `bundleDb` holds the committed ones,  *)
(* `bundleTx.written` those of the open transaction.                        *)

exceptBundle == <<probe, amc, codeRows, saving, softRows, clock>>

\* Requests the model follows.
MaxBundleRequests == 2

\* The optional parts of a bundle, in the order post() writes them.
PartOrder == <<"AssetPurchaseInfo", "AssetWarrantyAMC", "AssetMeasure",
               "AssetAttachment">>
Parts == {PartOrder[i] : i \in 1..Len(PartOrder)}

\* How the payload names its location: by id, by (site_id, building_id,
\* floor_id, unit_id), or not at all.
LocationModes == {"id", "keys", "missing"}

\* Stages at which a statement inside the atomic block raises, with the
\* `stage` of the 400 answer.
WriteFailures == {"serializer", "model_clean", "integrity", "unknown"}

\* The response leaves the atomic block through an exception: every row
\* written in the transaction is rolled back.
BundleAbort(st, stage) ==
    bundleTx' = [bundleTx EXCEPT !.pc = "responded", !.written = {},
                                 !.discarded = bundleTx.written,
                                 !.status = st, !.stage = stage]

\* views.py:365-397: permission check, _ensure_alias_ready and the
\* connection check, payload parsing; then `with transaction.atomic`.
AssetBundleCreateAPIView_enter ==
    /\ bundleTx.pc = "idle" /\ bundleTx.rid < MaxBundleRequests
    /\ \E sup \in SUBSET Parts, loc \in LocationModes,
          pre \in {"ok", "permission", "db_connect", "parse"} :
          bundleTx' = [NoBundle EXCEPT
              !.answered201 = bundleTx.answered201,
              !.rid = bundleTx.rid + 1, !.supplied = sup, !.location = loc,
              !.pc = IF pre = "ok" THEN "location" ELSE "responded",
              !.status = CASE pre = "ok" -> 0
                           [] pre = "permission" -> 403
                           [] OTHER -> 400,
              !.stage = IF pre = "ok" THEN "none" ELSE pre]
    /\ UNCHANGED <<regVars, callVars, reqVars, bundleDb, exceptBundle>>

\* Variant: get_or_create runs outside the transaction and its row is
\* committed at once.
AssetBundleCreateAPIView_inject_location_id_autocommit ==
    /\ bundleTx.pc = "location"
    /\ CASE bundleTx.location = "id" ->
               /\ bundleTx' = [bundleTx EXCEPT !.pc = "asset"]
               /\ UNCHANGED bundleDb
         [] bundleTx.location = "missing" ->
               /\ BundleAbort(400, "serializer")
               /\ UNCHANGED bundleDb
         [] bundleTx.location = "keys" ->
               /\ bundleTx' = [bundleTx EXCEPT !.pc = "asset"]
               /\ bundleDb' =
                     IF \E r \in bundleDb : r[2] = "Location"
                     THEN bundleDb
                     ELSE bundleDb \cup {<<bundleTx.rid, "Location">>}
    /\ UNCHANGED <<regVars, callVars, reqVars, exceptBundle>>

\* views.py:332-363 called at 402: a location id is trusted; incomplete
\* keys raise DRFValidationError; otherwise Location.get_or_create, inside
\* the transaction.
AssetBundleCreateAPIView_inject_location_id ==
    /\ bundleTx.pc = "location"
    /\ CASE bundleTx.location = "id" ->
               bundleTx' = [bundleTx EXCEPT !.pc = "asset"]
         [] bundleTx.location = "missing" ->
               BundleAbort(400, "serializer")
         [] bundleTx.location = "keys" ->
               bundleTx' = [bundleTx EXCEPT
                   !.pc = "asset",
                   !.written =
                       IF \E r \in bundleDb : r[2] = "Location"
                       THEN @
                       ELSE @ \cup {<<bundleTx.rid, "Location">>}]
    /\ UNCHANGED <<regVars, callVars, reqVars, bundleDb, exceptBundle>>

\* views.py:405-413: AssetSerializer, full_clean, asset.save(using=alias).
AssetBundleCreateAPIView_save_asset ==
    /\ bundleTx.pc = "asset"
    /\ \/ bundleTx' = [bundleTx EXCEPT
              !.pc = "parts", !.part = 1,
              !.written = @ \cup {<<bundleTx.rid, "Asset">>}]
       \/ \E f \in WriteFailures : BundleAbort(400, f)
    /\ UNCHANGED <<regVars, callVars, reqVars, bundleDb, exceptBundle>>

\* views.py:415-461: the next optional part: skipped when the payload has
\* none, else validated and saved (save or bulk_create), or it raises.
AssetBundleCreateAPIView_save_part ==
    /\ bundleTx.pc = "parts" /\ bundleTx.part <= Len(PartOrder)
    /\ LET p == PartOrder[bundleTx.part] IN
       IF p \notin bundleTx.supplied
       THEN bundleTx' = [bundleTx EXCEPT !.part = @ + 1]
       ELSE \/ bundleTx' = [bundleTx EXCEPT
                   !.part = @ + 1,
                   !.written = @ \cup {<<bundleTx.rid, p>>}]
            \/ \E f \in WriteFailures : BundleAbort(400, f)
    /\ UNCHANGED <<regVars, callVars, reqVars, bundleDb, exceptBundle>>

\* views.py:463 and the end of the atomic block: `return Response(201)`
\* leaves the block and the transaction commits; a commit the database
\* refuses raises IntegrityError and nothing is kept.
AssetBundleCreateAPIView_exit ==
    /\ bundleTx.pc = "parts" /\ bundleTx.part > Len(PartOrder)
    /\ \/ /\ bundleDb' = bundleDb \cup bundleTx.written
          /\ bundleTx' = [bundleTx EXCEPT !.pc = "responded", !.written = {},
                                          !.status = 201,
                                          !.answered201 = @ \cup {bundleTx.rid}]
       \/ /\ BundleAbort(400, "integrity")
          /\ UNCHANGED bundleDb
    /\ UNCHANGED <<regVars, callVars, reqVars, exceptBundle>>

\* The response has gone out; the next request may come.
AssetBundleCreateAPIView_done ==
    /\ bundleTx.pc = "responded"
    /\ bundleTx' = [NoBundle EXCEPT !.rid = bundleTx.rid,
                                    !.answered201 = bundleTx.answered201]
    /\ UNCHANGED <<regVars, callVars, reqVars, bundleDb, exceptBundle>>

NextBundle ==
    \/ AssetBundleCreateAPIView_enter
    \/ AssetBundleCreateAPIView_inject_location_id
    \/ AssetBundleCreateAPIView_save_asset
    \/ AssetBundleCreateAPIView_save_part
    \/ AssetBundleCreateAPIView_exit
    \/ AssetBundleCreateAPIView_done

SpecBundle == Init /\ [][NextBundle]_vars

\* Committed rows of request r.
RowsOf(r) == {row \in bundleDb : row[1] = r}

----------------------------------------------------------------------------
(* AssetType.save with a blank code (models.py:59-73); AssetCategory,     *)
(* AssetGroup and AssetSubgroup run the same loop within their parent row. *)
(* Strings are sequences of characters.                                    *)

exceptCode == <<probe, amc, bundleTx, bundleDb, softRows, clock>>

\* code = models.SlugField(max_length=64), name = CharField(max_length=100)
CodeMaxLength == 64
NameMaxLength == 100

\* Rows the table may hold, and passes of the loop the model follows.
MaxCodeRows == 3
MaxTries == 6

\* site_id is nullable: 0 stands for NULL.
NullSite == 0
Sites == {NullSite, 1}

Rep(c, n) == [k \in 1..n |-> c]

\* The names saved: two that differ in case only, and one longer than a
\* code may be.
LongNameLen == 70
NamePump    == <<"p", "u", "m", "p">>
NameCapPump == <<"P", "u", "m", "p">>
NameLong    == Rep("a", LongNameLen)
Names == {n \in {NamePump, NameCapPump, NameLong} : Len(n) <= NameMaxLength}

\* django.utils.text.slugify on these characters: lower case, and only
\* letters, digits, "_" and "-" are kept.
LowerOf == [P |-> "p", A |-> "a"]
Lower(c) == IF c \in DOMAIN LowerOf THEN LowerOf[c] ELSE c
IsSlugChar(c) == c \in {"a", "m", "p", "u", "t", "y", "e", "-", "_"}
Slugify(name) ==
    SelectSeq([k \in 1..Len(name) |-> Lower(name[k])], IsSlugChar)

\* s[:n]
Truncate(s, n) == SubSeq(s, 1, IF Len(s) < n THEN Len(s) ELSE n)

\* str(i)
Str(i) ==
    IF i < 10 THEN <<ToString(i)>>
    ELSE <<ToString(i \div 10), ToString(i % 10)>>

\* (slugify(self.name) or "type")[:64]
BaseCode(name) ==
    Truncate(IF Slugify(name) = <<>> THEN <<"t", "y", "p", "e">>
             ELSE Slugify(name), CodeMaxLength)

\* f"{base}-{i}"[:64]
Candidate(base, i) == Truncate(base \o <<"-">> \o Str(i), CodeMaxLength)

\* AssetType.all_objects.filter(site_id=..., code=...).exists()
CodeInUse(site, code) ==
    \E r \in codeRows : r.site = site /\ r.code = code

\* uniq_type_name_per_site and uniq_type_code_per_site (models.py:49-53):
\* the database compares only rows whose site_id is not NULL.
ViolatesUnique(site, name, code) ==
    /\ site # NullSite
    /\ \E r \in codeRows : r.site = site /\ (r.name = name \/ r.code = code)

\* save() is called on a new row with a blank code: lines 60-65.
AssetType_save(w) ==
    /\ saving[w].pc = "idle"
    /\ Cardinality(codeRows)
           + Cardinality({v \in Workers : saving[v].pc # "idle"}) < MaxCodeRows
    /\ \E site \in Sites, name \in Names :
          saving' = [saving EXCEPT ![w] =
              [pc |-> "check", site |-> site, name |-> name,
               base |-> BaseCode(name), code |-> BaseCode(name), i |-> 1,
               tried |-> {}]]
    /\ UNCHANGED <<regVars, callVars, reqVars, codeRows, exceptCode>>

\* One test of `while qs.exclude(pk=self.pk).exists()` and, when the code
\* is in use, one pass of the body (lines 66-69); else self.code = code.
AssetType_save_loop(w) ==
    /\ saving[w].pc = "check"
    /\ IF CodeInUse(saving[w].site, saving[w].code)
       THEN /\ saving[w].i < MaxTries
            /\ saving' = [saving EXCEPT
                   ![w].i = @ + 1,
                   ![w].code = Candidate(saving[w].base, saving[w].i + 1),
                   ![w].tried = @ \cup {saving[w].code}]
       ELSE saving' = [saving EXCEPT ![w].pc = "insert"]
    /\ UNCHANGED <<regVars, callVars, reqVars, codeRows, exceptCode>>

\* super().save(): the INSERT, which the unique constraints may refuse
\* with IntegrityError.
AssetType_save_insert(w) ==
    /\ saving[w].pc = "insert"
    /\ IF ViolatesUnique(saving[w].site, saving[w].name, saving[w].code)
       THEN /\ saving' = [saving EXCEPT ![w].pc = "IntegrityError"]
            /\ UNCHANGED codeRows
       ELSE /\ saving' = [saving EXCEPT ![w].pc = "saved"]
            /\ codeRows' = codeRows \cup
                   {[pk |-> Cardinality(codeRows) + 1, site |-> saving[w].site,
                     name |-> saving[w].name, code |-> saving[w].code]}
    /\ UNCHANGED <<regVars, callVars, reqVars, exceptCode>>

\* save() has returned or raised; the thread is free again.
AssetType_save_return(w) ==
    /\ saving[w].pc \in {"saved", "IntegrityError"}
    /\ saving' = [saving EXCEPT ![w] = NoSave]
    /\ UNCHANGED <<regVars, callVars, reqVars, codeRows, exceptCode>>

NextCode ==
    \E w \in Workers :
        \/ AssetType_save(w)
        \/ AssetType_save_loop(w)
        \/ AssetType_save_insert(w)
        \/ AssetType_save_return(w)

SpecCode == Init /\ [][NextCode]_vars

\* C28: the loop of a blank-code save always reaches an unused code: every
\* pass that found its code in use goes on to a code this save has not
\* tried before, so that the rows in its scope, finitely many, cannot keep
\* it turning for ever.
C28_CodeLoopReachesUnusedCode ==
    [][\A w \in Workers :
          (saving[w].pc = "check" /\ saving'[w].pc = "check"
           /\ saving'[w].i > saving[w].i)
          => saving'[w].code \notin saving'[w].tried]_vars

\* C29: no two rows of one scope hold the same code, and no save with a
\* blank code fails.
C29_GeneratedCodesUniqueAndSavesSucceed ==
    /\ \A r1, r2 \in codeRows :
          (r1.site = r2.site /\ r1.code = r2.code) => r1 = r2
    /\ \A w \in Workers : saving[w].pc # "IntegrityError"

----------------------------------------------------------------------------
(* BaseModel: soft delete and the three managers (models.py:8-40) *)

exceptSoft == <<probe, amc, bundleTx, bundleDb, codeRows, saving>>

\* Readings of timezone.now() the model follows.
MaxClock == 3

\* Users calling delete; NoUser is a call without user_id.
UserIds == {NoUser, 7}

Exists(k) == softRows.rows[k] # Absent

\* all_objects = models.Manager()
all_objects == {k \in RowIds : Exists(k)}
\* objects = ActiveManager(): filter(is_deleted=False)
objects == {k \in all_objects : ~softRows.rows[k].is_deleted}
\* deleted_objects = DeletedManager(): filter(is_deleted=True)
deleted_objects == {k \in all_objects : softRows.rows[k].is_deleted}

\* A row is inserted (created_at and the other columns left out).
BaseModel_save_new(k) ==
    /\ ~Exists(k)
    /\ softRows' = [rows |-> [softRows.rows EXCEPT ![k] =
                        [is_deleted |-> FALSE, deleted_at |-> NoTime,
                         deleted_by |-> NoUser]],
                    last |-> [op |-> "save", pk |-> k]]
    /\ UNCHANGED <<regVars, callVars, reqVars, clock, exceptSoft>>

\* Variant: delete() is django's own and removes the row.
BaseModel_delete_removing_row(k, user_id) ==
    /\ Exists(k) /\ clock < MaxClock
    /\ clock' = clock + 1
    /\ softRows' = [rows |-> [softRows.rows EXCEPT ![k] = Absent],
                    last |-> [op |-> "delete", pk |-> k]]
    /\ UNCHANGED <<regVars, callVars, reqVars, exceptSoft>>

\* models.py:32-37: delete(user_id=...) on an instance of row k.
BaseModel_delete(k, user_id) ==
    /\ Exists(k) /\ clock < MaxClock
    /\ clock' = clock + 1
    /\ softRows' = [rows |-> [softRows.rows EXCEPT ![k] =
                        [is_deleted |-> TRUE, deleted_at |-> clock + 1,
                         deleted_by |-> IF user_id # NoUser THEN user_id
                                        ELSE softRows.rows[k].deleted_by]],
                    last |-> [op |-> "delete", pk |-> k]]
    /\ UNCHANGED <<regVars, callVars, reqVars, exceptSoft>>

\* views.py:508-511: AssetViewSet.destroy: get_object() looks the row up
\* through Asset.objects (404 when it is not there), then
\* instance.delete(user_id=request.user.id).
AssetViewSet_destroy(k, user_id) ==
    IF k \in objects
    THEN BaseModel_delete(k, user_id)
    ELSE /\ softRows' = [softRows EXCEPT !.last = [op |-> "404", pk |-> k]]
         /\ UNCHANGED <<regVars, callVars, reqVars, clock, exceptSoft>>

\* models.py:39-40: hard_delete() is django's Model.delete.
BaseModel_hard_delete(k) ==
    /\ Exists(k)
    /\ softRows' = [rows |-> [softRows.rows EXCEPT ![k] = Absent],
                    last |-> [op |-> "hard_delete", pk |-> k]]
    /\ UNCHANGED <<regVars, callVars, reqVars, clock, exceptSoft>>

NextSoft ==
    \E k \in RowIds :
        \/ BaseModel_save_new(k)
        \/ \E u \in UserIds : BaseModel_delete(k, u)
        \/ \E u \in UserIds \ {NoUser} : AssetViewSet_destroy(k, u)
        \/ BaseModel_hard_delete(k)

SpecSoft == Init /\ [][NextSoft]_vars

\* C30: after delete() the row is still there with is_deleted true and
\* deleted_at set to the time of the call, `objects` no longer returns it
\* and `deleted_objects` does, a second delete included; a row leaves the
\* table only through hard_delete.
C30_DeleteIsSoft ==
    [][/\ softRows'.last.op = "delete" =>
            LET k == softRows'.last.pk IN
            /\ k \in all_objects'
            /\ k \notin objects' /\ k \in deleted_objects'
            /\ softRows'.rows[k].is_deleted
            /\ softRows'.rows[k].deleted_at = clock'
            /\ softRows'.rows[k].deleted_at # NoTime
            /\ \A j \in RowIds \ {k} : softRows'.rows[j] = softRows.rows[j]
       /\ \A k \in RowIds :
            (softRows.rows[k] # Absent /\ softRows'.rows[k] = Absent)
            => softRows'.last = [op |-> "hard_delete", pk |-> k]]_vars

\* The second delete() of the run has just returned: its row is still in
\* the table, marked deleted at the time of that call, hidden from
\* `objects` and listed by `deleted_objects`.
C30_Witness ==
    \E k \in RowIds :
        /\ softRows.last = [op |-> "delete", pk |-> k]
        /\ k \in deleted_objects /\ k \notin objects
        /\ softRows.rows[k].deleted_at = 2
        /\ softRows.rows[k].deleted_by = 7

====
